---- MODULE Spec2Model ----
(***************************************************************************)
(* Model of perplexity-opencode: the keyword detector (keywords.ts), the   *)
(* configuration loader (config.ts), the chat.message hook (index.ts) and  *)
(* the installer (cli.ts).                                                 *)
(*                                                                         *)
(* Text is a sequence of tokens; the string it stands for is the           *)
(* concatenation of its tokens.  A token is a run of word characters       *)
(* ("deep"), one whitespace character (SP or NL), one backtick (BT), a     *)
(* run of three backticks (FENCE) or one punctuation character.  A         *)
(* regular expression is a sequence of groups, each the priority-ordered   *)
(* list of the token sequences it accepts, and is matched by backtracking. *)
(* The token alphabets are chosen so that no pattern literal straddles two *)
(* tokens or lies strictly inside one.                                     *)
(***************************************************************************)
EXTENDS Integers, Sequences, FiniteSets, TLC

\* ------------------------------------------------------------------ bounds
MaxLen == 3
MaxCustom == 2
MaxCodeLen == 5
MaxParts == 2
MaxClock == 1
MaxCalls == 2
MaxRuns == 2

\* ------------------------------------------------------------ text tokens
BT == "BACKTICK"
FENCE == "FENCE"
APOS == "APOSTROPHE"
SP == " "
NL == "NEWLINE"

SpaceToks == {SP, NL}
PunctToks == {BT, FENCE, APOS, "-", ".", "(", ")"}

IsSpaceTok(t) == t \in SpaceToks
IsWordTok(t) == t \notin SpaceToks /\ t \notin PunctToks

\* String.prototype case folding for the "i" flag, on the tokens in use
Lower(t) ==
  CASE t = "DEEP" -> "deep"
    [] t = "Deep" -> "deep"
    [] t = "Research" -> "research"
    [] t = "I" -> "i"
    [] t = "DIVE" -> "dive"
    [] t \in {"COMPREHENSIVE", "Comprehensive"} -> "comprehensive"
    [] t = "RESEARCH" -> "research"
    [] t \in {"THOROUGH", "Thorough"} -> "thorough"
    [] t = "INVESTIGATION" -> "investigation"
    [] t \in {"IN", "In"} -> "in"
    [] t = "DEPTH" -> "depth"
    [] t = "ANALYSIS" -> "analysis"
    [] t \in {"DETAILED", "Detailed"} -> "detailed"
    [] t = "REPORT" -> "report"
    [] OTHER -> t

RECURSIVE Expand(_)
\* a FENCE token is three backtick characters
Expand(s) ==
  IF s = <<>> THEN <<>>
  ELSE (IF Head(s) = FENCE THEN <<BT, BT, BT>> ELSE <<Head(s)>>) \o Expand(Tail(s))

\* --------------------------------------------------- regular expressions
\* pattern elements
WB == "\\b"
WS == "\\s+"

\* a fragment is a priority-ordered sequence of alternatives
Lit(w) == << <<w>> >>
B == Lit(WB)
S == Lit(WS)
Or(r1, r2) == r1 \o r2
Opt(r) == r \o << <<>> >>

RECURSIVE OrAll(_)
OrAll(rs) == IF rs = <<>> THEN <<>> ELSE Head(rs) \o OrAll(Tail(rs))

\* (w1|w2|...)
Words(ws) == OrAll([i \in 1..Len(ws) |-> Lit(ws[i])])

\* concatenation: alternatives of r1 are tried in order, and for each one the
\* alternatives of r2 in order
Cat(r1, r2) ==
  [k \in 1..(Len(r1) * Len(r2)) |->
     r1[((k - 1) \div Len(r2)) + 1] \o r2[((k - 1) % Len(r2)) + 1]]

\* a regular expression is the sequence of its groups, matched one after the
\* other with backtracking
\* /\b ... \b/i
Bounded(rs) == <<B>> \o rs \o <<B>>

SEARCH_PATTERNS == <<
  Bounded(<<Lit("search"), S, Opt(Cat(Lit("the"), S)), Words(<<"web", "internet", "online">>)>>),
  Bounded(<<Lit("web"), S, Lit("search")>>),
  Bounded(<<Lit("look"), S, Lit("up")>>),
  Bounded(<<Lit("find"), S, Opt(Cat(Lit("me"), S)), Words(<<"information", "info", "details">>),
            S, Words(<<"about", "on", "for">>)>>),
  Bounded(<<Lit("what"), Or(Cat(Lit(APOS), Lit("s")), Cat(S, Lit("is"))), S,
            Opt(Cat(Lit("the"), S)), Words(<<"latest", "current", "recent">>)>>),
  Bounded(<<Lit("research")>>),
  Bounded(<<Lit("investigate")>>),
  Bounded(<<Lit("find"), S, Lit("out")>>),
  Bounded(<<Words(<<"latest", "recent", "current">>), S, Words(<<"news", "updates", "developments">>)>>),
  Bounded(<<Lit("what"), Or(Cat(Lit(APOS), Lit("s")), Cat(S, Lit("is"))), S, Lit("happening")>>),
  Bounded(<<Lit("breaking"), S, Lit("news")>>),
  Bounded(<<Lit("find"), S, Opt(Cat(Lit("the"), S)), Lit("doc"), Opt(Lit("s"))>>),
  Bounded(<<Lit("documentation"), S, Lit("for")>>),
  Bounded(<<Lit("how"), S, Lit("do"), S, Words(<<"i", "you", "we">>)>>),
  Bounded(<<Lit("what"), S, Lit("is"), S, Lit("the"), S, Lit("best"), S, Lit("way")>>),
  Bounded(<<Lit("who"), S, Words(<<"is", "was", "are", "were">>)>>),
  Bounded(<<Lit("when"), S, Words(<<"did", "was", "is", "will">>)>>),
  Bounded(<<Lit("where"), S, Words(<<"is", "are", "can", "do">>)>>),
  Bounded(<<Lit("how"), S, Words(<<"much", "many", "long", "far">>)>>),
  Bounded(<<Lit("compare")>>),
  Bounded(<<Lit("alternative"), Opt(Lit("s")), S, Lit("to")>>),
  Bounded(<<Lit("vs"), Opt(Lit("."))>>),
  Bounded(<<Lit("versus")>>),
  Bounded(<<Lit("perplexity")>>),
  Bounded(<<Lit("ask"), S, Lit("perplexity")>>),
  Bounded(<<Lit("use"), S, Lit("perplexity")>>)
>>

RESEARCH_PATTERNS == <<
  Bounded(<<Lit("deep"), S, Words(<<"dive", "research", "analysis">>)>>),
  Bounded(<<Lit("comprehensive"), S, Words(<<"search", "research", "analysis">>)>>),
  Bounded(<<Lit("thorough"), Opt(Lit("ly")), S, Words(<<"research", "investigate", "search">>)>>),
  Bounded(<<Lit("in"), Words(<<"-", " ">>), Lit("depth"), S, Words(<<"research", "analysis">>)>>),
  Bounded(<<Lit("detailed"), S, Words(<<"research", "analysis", "report">>)>>)
>>

\* ----------------------------------------------------------- the matcher
\* \b : a word character on exactly one side
BoundaryAt(s, i) ==
  (i - 1 >= 1 /\ i - 1 <= Len(s) /\ IsWordTok(s[i - 1]))
    # (i >= 1 /\ i <= Len(s) /\ IsWordTok(s[i]))

RECURSIVE SpaceRun(_, _)
\* the position after the longest run of whitespace starting at i
SpaceRun(s, i) == IF i <= Len(s) /\ IsSpaceTok(s[i]) THEN SpaceRun(s, i + 1) ELSE i

NoMatch == -1

RECURSIVE MatchAlt(_, _, _, _)
\* the position after the match of elements j.. of alt at position i of s
MatchAlt(s, i, alt, j) ==
  IF j > Len(alt) THEN i
  ELSE IF alt[j] = WB
       THEN IF BoundaryAt(s, i) THEN MatchAlt(s, i, alt, j + 1) ELSE NoMatch
  ELSE IF alt[j] = WS
       THEN IF SpaceRun(s, i) > i THEN MatchAlt(s, SpaceRun(s, i), alt, j + 1) ELSE NoMatch
  ELSE IF i <= Len(s) /\ Lower(s[i]) = Lower(alt[j])
       THEN MatchAlt(s, i + 1, alt, j + 1)
       ELSE NoMatch

RECURSIVE MatchHere(_, _, _, _, _)
\* the position after the match of groups j.. of re at position i of s, trying
\* the alternatives of group j from the k-th on and backtracking into them
\* when the rest of the expression fails
MatchHere(s, i, re, j, k) ==
  IF j > Len(re) THEN i
  ELSE IF k > Len(re[j]) THEN NoMatch
  ELSE LET e == MatchAlt(s, i, re[j][k], 1)
           rest == IF e = NoMatch THEN NoMatch ELSE MatchHere(s, e, re, j + 1, 1)
       IN IF rest # NoMatch THEN rest ELSE MatchHere(s, i, re, j, k + 1)

RECURSIVE MatchFrom(_, _, _)
\* String.prototype.match with a non-global regex: leftmost match, match[0]
MatchFrom(s, re, i) ==
  IF i > Len(s) + 1 THEN [found |-> FALSE, text |-> <<>>]
  ELSE LET e == MatchHere(s, i, re, 1, 1)
       IN IF e # NoMatch
          THEN [found |-> TRUE, text |-> SubSeq(s, i, e - 1)]
          ELSE MatchFrom(s, re, i + 1)

Match(s, re) == MatchFrom(s, re, 1)

\* ------------------------------------------------------------- config.ts
\* the settings file perplexity.json as parsed; a field the file does not set
\* is "unset", and an absent file parses to {}
Unset == "unset"
NoPatterns == [kind |-> Unset, items |-> <<>>]
NotArray == [kind |-> "notArray", items |-> <<>>]
PatternList(ps) == [kind |-> "list", items |-> ps]

AbsentSettings ==
  [exists |-> FALSE, apiKey |-> "", enabled |-> Unset, customPatterns |-> NoPatterns]

loadConfigFile(file) ==
  IF file.exists THEN file ELSE AbsentSettings

\* a loader that asks the environment before the file
loadConfigEnvFirst(file, env) ==
  LET fileConfig == loadConfigFile(file) IN
  [apiKey |-> IF env # "" THEN env ELSE fileConfig.apiKey,
   keywords |->
     [enabled |-> IF fileConfig.enabled = Unset THEN TRUE ELSE fileConfig.enabled = "true",
      customPatterns |-> IF fileConfig.customPatterns.kind = Unset
                         THEN PatternList(<<>>)
                         ELSE fileConfig.customPatterns]]

\* a loader that drops the file's enable flag
loadConfigAlwaysEnabled(file, env) ==
  LET fileConfig == loadConfigFile(file) IN
  [apiKey |-> IF fileConfig.apiKey # "" THEN fileConfig.apiKey ELSE env,
   keywords |->
     [enabled |-> TRUE,
      customPatterns |-> IF fileConfig.customPatterns.kind = Unset
                         THEN PatternList(<<>>)
                         ELSE fileConfig.customPatterns]]

loadConfig(file, env) ==
  LET fileConfig == loadConfigFile(file) IN
  [apiKey |-> IF fileConfig.apiKey # "" THEN fileConfig.apiKey ELSE env,
   keywords |->
     [enabled |-> IF fileConfig.enabled = Unset THEN TRUE ELSE fileConfig.enabled = "true",
      customPatterns |-> IF fileConfig.customPatterns.kind = Unset
                         THEN PatternList(<<>>)
                         ELSE fileConfig.customPatterns]]

isConfigured(cfg) == cfg.apiKey # ""

\* ----------------------------------------------------------- keywords.ts
IsFenceAt(s, i) == i + 2 <= Len(s) /\ s[i] = BT /\ s[i + 1] = BT /\ s[i + 2] = BT

RECURSIVE NextFence(_, _)
\* the first position from i on where three backticks start, 0 if none
NextFence(s, i) ==
  IF i + 2 > Len(s) THEN 0
  ELSE IF IsFenceAt(s, i) THEN i
  ELSE NextFence(s, i + 1)

RECURSIVE RemoveFenced(_, _)
\* s.replace(/```[\s\S]*?```/g, "") from position i on
RemoveFenced(s, i) ==
  IF i > Len(s) THEN <<>>
  ELSE IF IsFenceAt(s, i) /\ NextFence(s, i + 3) # 0
       THEN RemoveFenced(s, NextFence(s, i + 3) + 3)
       ELSE <<s[i]>> \o RemoveFenced(s, i + 1)

RECURSIVE NextTick(_, _)
\* the first backtick from i on, 0 if none
NextTick(s, i) ==
  IF i > Len(s) THEN 0
  ELSE IF s[i] = BT THEN i
  ELSE NextTick(s, i + 1)

RECURSIVE RemoveInline(_, _)
\* s.replace(/`[^`]+`/g, "") from position i on
RemoveInline(s, i) ==
  IF i > Len(s) THEN <<>>
  ELSE IF s[i] = BT /\ i + 1 <= Len(s) /\ s[i + 1] # BT /\ NextTick(s, i + 1) # 0
       THEN RemoveInline(s, NextTick(s, i + 1) + 1)
       ELSE <<s[i]>> \o RemoveInline(s, i + 1)

removeCodeBlocks(text) ==
  LET result == RemoveFenced(Expand(text), 1) IN
  RemoveInline(result, 1)

RECURSIVE Depth(_, _)
\* nesting depth after reading src at depth d; -1 once a ")" has no "("
Depth(src, d) ==
  IF d < 0 \/ src = <<>> THEN d
  ELSE IF Head(src) = "(" THEN Depth(Tail(src), d + 1)
  ELSE IF Head(src) = ")" THEN Depth(Tail(src), d - 1)
  ELSE Depth(Tail(src), d)

\* new RegExp(src, "i") throws a SyntaxError on unbalanced groups
Compiles(src) == Depth(src, 0) = 0

\* the regex of a source that compiles: groups do not change what it accepts
NewRegExp(src) == << << SelectSeq(src, LAMBDA e : e \notin {"(", ")"}) >> >>

RECURSIVE ValidPrefix(_)
ValidPrefix(ps) ==
  IF ps = <<>> \/ ~Compiles(Head(ps)) THEN <<>> ELSE <<Head(ps)>> \o ValidPrefix(Tail(ps))

\* a compiler that gives up at the first source that does not compile
compileCustomPatternsStopAtInvalid(cfg) ==
  LET valid == ValidPrefix(cfg.keywords.customPatterns.items)
  IN [i \in 1..Len(valid) |-> NewRegExp(valid[i])]

compileCustomPatterns(cfg) ==
  LET customPatterns == cfg.keywords.customPatterns.items
      valid == SelectSeq(customPatterns, Compiles)
  IN [i \in 1..Len(valid) |-> NewRegExp(valid[i])]

Null == [kind |-> "null", type |-> "", matchedText |-> <<>>]
Thrown == [kind |-> "throw", type |-> "", matchedText |-> <<>>]
KeywordMatch(type, text) == [kind |-> "match", type |-> type, matchedText |-> text]

RECURSIVE Scan(_, _, _, _)
\* for (const pattern of patterns) { match = s.match(pattern); if (match) return }
Scan(s, patterns, k, type) ==
  IF k > Len(patterns) THEN Null
  ELSE LET match == Match(s, patterns[k])
       IN IF match.found
          THEN KeywordMatch(type, match.text)
          ELSE Scan(s, patterns, k + 1, type)

\* a detector that scans the custom patterns before the research patterns
detectKeywordsCustomFirst(message, cfg) ==
  IF ~cfg.keywords.enabled THEN Null
  ELSE IF cfg.keywords.customPatterns.kind # "list" THEN Thrown
  ELSE
    LET cleanedMessage == removeCodeBlocks(message)
        customPatterns == compileCustomPatterns(cfg)
        research == Scan(cleanedMessage, RESEARCH_PATTERNS, 1, "research")
        custom == Scan(cleanedMessage, customPatterns, 1, "search")
        search == Scan(cleanedMessage, SEARCH_PATTERNS, 1, "search")
    IN IF custom # Null THEN custom
       ELSE IF research # Null THEN research
       ELSE search

detectKeywords(message, cfg) ==
  IF ~cfg.keywords.enabled THEN Null
  ELSE IF cfg.keywords.customPatterns.kind # "list" THEN Thrown
  ELSE
    LET cleanedMessage == removeCodeBlocks(message)
        customPatterns == compileCustomPatterns(cfg)
        research == Scan(cleanedMessage, RESEARCH_PATTERNS, 1, "research")
        custom == Scan(cleanedMessage, customPatterns, 1, "search")
        search == Scan(cleanedMessage, SEARCH_PATTERNS, 1, "search")
    IN IF research # Null THEN research
       ELSE IF custom # Null THEN custom
       ELSE search

\* the two templates, by their opening lines
getSearchNudge ==
  <<"perplexity", "-", "hint", NL, "The", SP, "user", APOS, "s", SP, "message", SP,
    "suggests", SP, "they", SP, "want", SP, "to", SP, "search", SP, "the", SP, "web">>

getResearchNudge ==
  <<"perplexity", "-", "hint", NL, "The", SP, "user", SP, "wants", SP,
    "comprehensive", SP, "research">>

\* -------------------------------------------------------------- index.ts
None == "undefined"
MsgName(n) == CASE n = 1 -> "msg-1" [] n = 2 -> "msg-2" [] n = 3 -> "msg-3" [] OTHER -> "msg-n"

TextPart(text) ==
  [id |-> <<"prt">>, sessionID |-> "host", messageID |-> "host",
   type |-> "text", text |-> text, synthetic |-> FALSE]

FilePart ==
  [id |-> <<"prt">>, sessionID |-> "host", messageID |-> "host",
   type |-> "file", text |-> <<>>, synthetic |-> FALSE]

\* a null entry of output.parts: reading its type throws a TypeError
NullPart ==
  [id |-> <<"prt">>, sessionID |-> "host", messageID |-> "host",
   type |-> "null", text |-> <<>>, synthetic |-> FALSE]

RECURSIVE Join(_)
\* textParts.map((p) => p.text).join("\n")
Join(ps) ==
  IF ps = <<>> THEN <<>>
  ELSE IF Len(ps) = 1 THEN ps[1].text
  ELSE ps[1].text \o <<NL>> \o Join(Tail(ps))

RECURSIVE TrimStart(_)
TrimStart(s) == IF s # <<>> /\ IsSpaceTok(Head(s)) THEN TrimStart(Tail(s)) ELSE s

RECURSIVE TrimEnd(_)
TrimEnd(s) ==
  IF s # <<>> /\ IsSpaceTok(s[Len(s)]) THEN TrimEnd(SubSeq(s, 1, Len(s) - 1)) ELSE s

\* String.prototype.trim
Trim(s) == TrimEnd(TrimStart(s))

NudgeTextAlwaysSearch(match) == getSearchNudge

\* match.type === "research" ? getResearchNudge() : getSearchNudge()
NudgeText(match) ==
  IF match.type = "research" THEN getResearchNudge ELSE getSearchNudge

\* `perplexity-${match.type}-nudge-${Date.now()}`
NudgeId(type, t) == <<"perplexity", type, "nudge", t>>

NudgePart(in, out, match, t) ==
  [id |-> NudgeId(match.type, t), sessionID |-> in.sessionID, messageID |-> out.message,
   type |-> "text", text |-> NudgeText(match), synthetic |-> TRUE]

PushFront(parts, p) == <<p>> \o parts

\* output.parts.push(nudgePart)
Push(parts, p) == Append(parts, p)

\* the try block of the hook: what output.parts is afterwards, the part it
\* pushed, and whether it threw
hookBody(in, out, cfg, t) ==
  LET textParts == SelectSeq(out.parts, LAMBDA p : p.type = "text")
      userMessage == Join(textParts)
      match == detectKeywords(userMessage, cfg)
      same == [threw |-> FALSE, parts |-> out.parts, pushed |-> <<>>]
      throw == [threw |-> TRUE, parts |-> out.parts, pushed |-> <<>>]
  IN IF \E i \in 1..Len(out.parts) : out.parts[i].type = "null" THEN throw
     ELSE IF Len(textParts) = 0 THEN same
     ELSE IF Trim(userMessage) = <<>> THEN same
     ELSE IF match = Thrown THEN throw
     ELSE IF match = Null THEN same
     ELSE IF out.message = None THEN throw
     ELSE [threw |-> FALSE,
           parts |-> Push(out.parts, NudgePart(in, out, match, t)),
           pushed |-> <<NudgePart(in, out, match, t)>>]

\* a hook without the try/catch
chatMessageNoCatch(in, out, cfg, t) ==
  IF ~isConfigured(cfg)
  THEN [status |-> "returned", parts |-> out.parts, pushed |-> <<>>]
  ELSE LET r == hookBody(in, out, cfg, t)
       IN [status |-> IF r.threw THEN "raised" ELSE "returned",
           parts |-> r.parts, pushed |-> r.pushed]

\* "chat.message": async (input, output) => { ... }
chatMessage(in, out, cfg, t) ==
  IF ~isConfigured(cfg)
  THEN [status |-> "returned", parts |-> out.parts, pushed |-> <<>>]
  ELSE LET r == hookBody(in, out, cfg, t)
       IN [status |-> IF r.threw THEN "caught" ELSE "returned",
           parts |-> r.parts, pushed |-> r.pushed]

\* ----------------------------------------------------------------- cli.ts
\* The host config file is held by what the installer's text operations look
\* at: its extension, a comment (none, plain text, text that mentions
\* perplexity-opencode, or a commented-out "plugin": [] list, which turns
\* into "pluginListNamed" once the plugin name is written into it) standing
\* before the opening brace or inside the object before the first key, a
\* string value with "//" in it such as a $schema URL, the "plugin" key and
\* its list, and the entries under "mcp".
PLUGIN_NAME == "perplexity-opencode@latest"

\* content.includes("perplexity-opencode")
IncludesPluginName(h) ==
  \/ h.comment \in {"mention", "pluginListNamed"}
  \/ \E i \in 1..Len(h.plugin) : h.plugin[i] \in {PLUGIN_NAME, "perplexity-opencode"}

\* content.includes('"plugin"')
IncludesPluginKey(h) ==
  h.hasPlugin \/ h.comment \in {"pluginList", "pluginListNamed"}

\* JSON.parse(stripJsoncComments(content)) succeeds: the // rule cuts a string
\* value that holds "//" and leaves an unterminated string
StripParses(h) == ~h.schemaUrl

\* JSON.stringify(config, null, 2) of the parsed file: the comments are gone
Stringify(h) == [h EXCEPT !.comment = "none", !.leading = FALSE]

HasPerplexityServer(h) == \E i \in 1..Len(h.mcp) : h.mcp[i].name = "perplexity"

PerplexityServer(key) == [name |-> "perplexity", key |-> key]

\* findOpencodeConfig() !== null
findOpencodeConfig(h) == h.exists

\* a registration that does not look for the name first
addPluginToConfigNoCheck(h) ==
  IF ~StripParses(h) THEN [ok |-> FALSE, file |-> h]
  ELSE [ok |-> TRUE,
        file |-> [Stringify(h) EXCEPT !.hasPlugin = TRUE,
                                      !.plugin = Append(h.plugin, PLUGIN_NAME)]]

addPluginToConfig(h) ==
  IF IncludesPluginName(h) THEN [ok |-> TRUE, file |-> h]
  ELSE IF ~StripParses(h) THEN [ok |-> FALSE, file |-> h]
  ELSE IF h.ext = "jsonc"
       THEN IF IncludesPluginKey(h)
            THEN \* the first "plugin": [...] of the raw text takes the name
                 IF h.comment = "pluginList"
                 THEN [ok |-> TRUE, file |-> [h EXCEPT !.comment = "pluginListNamed"]]
                 ELSE [ok |-> TRUE, file |-> [h EXCEPT !.plugin = Append(@, PLUGIN_NAME)]]
            ELSE \* /^(\s*\{)/ needs the text to start with the brace
                 IF h.comment # "none" /\ h.leading
                 THEN [ok |-> TRUE, file |-> h]
                 ELSE [ok |-> TRUE,
                       file |-> [h EXCEPT !.hasPlugin = TRUE, !.plugin = <<PLUGIN_NAME>>]]
       ELSE [ok |-> TRUE,
             file |-> [Stringify(h) EXCEPT !.hasPlugin = TRUE,
                                           !.plugin = Append(h.plugin, PLUGIN_NAME)]]

addMcpServerToConfig(h, key) ==
  IF ~StripParses(h) THEN [ok |-> FALSE, file |-> h]
  ELSE IF HasPerplexityServer(h) THEN [ok |-> TRUE, file |-> h]
  ELSE [ok |-> TRUE,
        file |-> [Stringify(h) EXCEPT !.mcp = Append(@, PerplexityServer(key))]]

createNewConfig(key) ==
  [exists |-> TRUE, ext |-> "json", comment |-> "none", leading |-> FALSE,
   schemaUrl |-> FALSE, hasPlugin |-> TRUE, plugin |-> <<PLUGIN_NAME>>,
   mcp |-> <<PerplexityServer(key)>>]

createPerplexityConfig(key) ==
  [exists |-> TRUE, apiKey |-> key, enabled |-> "true", customPatterns |-> NoPatterns]

\* AGENTS.md by whether it has text of its own and how many copies of the
\* "# How to use Perplexity" instructions it holds
updateAgentsMd(a) ==
  IF a.exists
  THEN IF a.copies > 0 THEN a ELSE [a EXCEPT !.copies = 1]
  ELSE [exists |-> TRUE, other |-> FALSE, copies |-> 1]

\* ------------------------------------------------------------------ state
VARIABLES
  perplexityJson,  \* ~/.config/opencode/perplexity.json, the settings file
  envApiKey,       \* process.env.PERPLEXITY_API_KEY, "" when not set
  config,          \* config.ts: export const config = loadConfig()
  message,         \* the argument of the detectKeywords call
  result,          \* what the call returned
  input,           \* the input structure the host hands to chat.message
  output,          \* the output structure the host hands to chat.message
  hookStatus,      \* "idle", "pending", "returned", "caught" or "raised"
  emitted,         \* the nudge parts pushed so far, in call order
  calls,           \* hook invocations so far
  now,             \* Date.now()
  hostConfig,      \* ~/.config/opencode/opencode.json(c)
  agentsMd,        \* ~/.config/opencode/AGENTS.md
  pc,              \* where install() stands
  tui,             \* install: options.tui
  apiKey,          \* install: let apiKey
  runs,            \* completed runs of the installer
  failed,          \* install: the operations of this run that failed
  reported         \* install: the failures the installer wrote with console.error

vars == <<perplexityJson, envApiKey, config, message, result, input, output,
          hookStatus, emitted, calls, now, hostConfig, agentsMd, pc, tui, apiKey,
          runs, failed, reported>>

detectVars == <<message, result>>
hookVars == <<input, output, hookStatus, emitted, calls, now>>
installVars == <<hostConfig, agentsMd, pc, tui, apiKey, runs, failed, reported>>
settingsVars == <<perplexityJson, envApiKey, config>>

Seqs(A, n) == UNION {[1..k -> A] : k \in 0..n}

\* ------------------------------------------------------- detector inputs
Alphabet == {"deep", "research", "foo", SP}
CodeAlphabet == {"deep", "research", SP, BT, FENCE}

\* regex sources a user may list under keywords.customPatterns
CustomSources == {<<"foo">>, <<"research">>, <<"(", "foo">>}

Pending == [kind |-> "pending", type |-> "", matchedText |-> <<>>]

SettingsFiles(keys, flags, lists) ==
  {[exists |-> TRUE, apiKey |-> k, enabled |-> e, customPatterns |-> c] :
     k \in keys, e \in flags, c \in lists}

HookIdle ==
  /\ input = [sessionID |-> "ses-1"]
  /\ output = [parts |-> <<>>, message |-> None]
  /\ hookStatus = "idle"
  /\ emitted = <<>>
  /\ calls = 0
  /\ now = 0

AbsentHostConfig ==
  [exists |-> FALSE, ext |-> "json", comment |-> "none", leading |-> FALSE,
   schemaUrl |-> FALSE, hasPlugin |-> FALSE, plugin |-> <<>>, mcp |-> <<>>]

AbsentAgentsMd == [exists |-> FALSE, other |-> FALSE, copies |-> 0]

InstallIdle ==
  /\ hostConfig = AbsentHostConfig
  /\ agentsMd = AbsentAgentsMd
  /\ pc = "idle"
  /\ tui = FALSE
  /\ apiKey = ""
  /\ runs = 0
  /\ failed = {}
  /\ reported = {}

DetectIdle ==
  /\ message = <<>>
  /\ result = Pending

\* the process starts: the settings file is read once
Loaded == config = loadConfig(perplexityJson, envApiKey)

Init ==
  /\ perplexityJson \in
       SettingsFiles({"pplx-file"}, {"false", Unset},
                     {NoPatterns} \cup {PatternList(ps) : ps \in Seqs(CustomSources, MaxCustom)})
  /\ envApiKey = ""
  /\ Loaded
  /\ message \in Seqs(Alphabet, MaxLen)
  /\ result = Pending
  /\ HookIdle
  /\ InstallIdle

InitCode ==
  /\ perplexityJson \in SettingsFiles({"pplx-file"}, {"true"}, {NoPatterns})
  /\ envApiKey = ""
  /\ Loaded
  /\ message \in Seqs(CodeAlphabet, MaxCodeLen)
  /\ result = Pending
  /\ HookIdle
  /\ InstallIdle

\* one call of detectKeywords(message)
DetectKeywords ==
  /\ result = Pending
  /\ result' = detectKeywords(message, config)
  /\ UNCHANGED <<message, settingsVars, hookVars, installVars>>

Next == DetectKeywords

Spec == Init /\ [][Next]_vars
SpecCode == InitCode /\ [][Next]_vars

\* ----------------------------------------------------------- hook inputs
\* the parts the host may put in output.parts
HostParts == {TextPart(<<"deep">>), TextPart(<<"research">>), TextPart(<<SP>>), FilePart, NullPart}

\* one invocation of the hook on any output, under any settings
InitHook ==
  /\ perplexityJson \in
       SettingsFiles({"", "pplx-file"}, {"false", Unset},
                     {NoPatterns, PatternList(<< <<SP>> >>), NotArray})
  /\ envApiKey = ""
  /\ Loaded
  /\ DetectIdle
  /\ input = [sessionID |-> "ses-1"]
  /\ output \in [parts : Seqs(HostParts, MaxParts), message : {"msg-1", None}]
  /\ hookStatus = "pending"
  /\ emitted = <<>>
  /\ calls = 1
  /\ now = 0
  /\ InstallIdle

\* the host calls the hook once for the message it holds
ChatMessage ==
  /\ hookStatus = "pending"
  /\ \E r \in {chatMessage(input, output, config, now)} :
        /\ output' = [output EXCEPT !.parts = r.parts]
        /\ hookStatus' = r.status
        /\ emitted' = emitted \o r.pushed
  /\ UNCHANGED <<input, calls, now, detectVars, settingsVars, installVars>>

NextHook == ChatMessage

SpecHook == InitHook /\ [][NextHook]_vars

\* the messages of a session, one hook invocation each
IdMessages ==
  {<<TextPart(<<"research">>)>>,
   <<TextPart(<<"deep">>), TextPart(<<"research">>)>>,
   <<FilePart, TextPart(<<"foo">>)>>}

InitIds ==
  /\ perplexityJson \in SettingsFiles({"pplx-file"}, {Unset}, {NoPatterns})
  /\ envApiKey = ""
  /\ Loaded
  /\ DetectIdle
  /\ HookIdle
  /\ InstallIdle

\* the host receives a message and is about to call the hook
Receive ==
  /\ hookStatus # "pending"
  /\ calls < MaxCalls
  /\ \E ps \in IdMessages, sid \in {"ses-1", "ses-2"} :
       /\ input' = [sessionID |-> sid]
       /\ output' = [parts |-> ps, message |-> MsgName(calls + 1)]
  /\ hookStatus' = "pending"
  /\ calls' = calls + 1
  /\ UNCHANGED <<emitted, now, detectVars, settingsVars, installVars>>

\* a millisecond passes
Tick ==
  /\ now < MaxClock
  /\ now' = now + 1
  /\ UNCHANGED <<input, output, hookStatus, emitted, calls, detectVars, settingsVars,
                 installVars>>

NextIds == Receive \/ ChatMessage \/ Tick

SpecIds == InitIds /\ [][NextIds]_vars

\* ------------------------------------------- the documented research triggers
\* README, "Research triggers (for deeper analysis)"
ResearchTriggers ==
  {<<"deep", SP, "dive">>, <<"comprehensive", SP, "research">>,
   <<"thorough", SP, "investigation">>, <<"in", "-", "depth", SP, "analysis">>,
   <<"detailed", SP, "research">>, <<"detailed", SP, "report">>}

\* the spellings of a word in capitals and with a capital first letter
Upper(t) ==
  CASE t = "deep" -> "DEEP"
    [] t = "dive" -> "DIVE"
    [] t = "comprehensive" -> "COMPREHENSIVE"
    [] t = "research" -> "RESEARCH"
    [] t = "thorough" -> "THOROUGH"
    [] t = "investigation" -> "INVESTIGATION"
    [] t = "in" -> "IN"
    [] t = "depth" -> "DEPTH"
    [] t = "analysis" -> "ANALYSIS"
    [] t = "detailed" -> "DETAILED"
    [] t = "report" -> "REPORT"
    [] OTHER -> t

Capital(t) ==
  CASE t = "deep" -> "Deep"
    [] t = "comprehensive" -> "Comprehensive"
    [] t = "thorough" -> "Thorough"
    [] t = "in" -> "In"
    [] t = "detailed" -> "Detailed"
    [] OTHER -> t

Spellings(p) ==
  {p, [i \in 1..Len(p) |-> Upper(p[i])],
      [i \in 1..Len(p) |-> IF i = 1 THEN Capital(p[i]) ELSE p[i]]}

\* what stands before and after the phrase in the message
PhrasePrefixes == {<<>>, <<"foo", SP>>, <<BT, "foo", BT, SP>>}
PhraseSuffixes == {<<>>, <<SP, "foo">>, <<".">>}

InitPhrases ==
  /\ perplexityJson \in SettingsFiles({"pplx-file"}, {"true", Unset}, {NoPatterns})
  /\ envApiKey = ""
  /\ Loaded
  /\ message \in {pre \o spelt \o suf :
                    pre \in PhrasePrefixes,
                    spelt \in UNION {Spellings(p) : p \in ResearchTriggers},
                    suf \in PhraseSuffixes}
  /\ result = Pending
  /\ HookIdle
  /\ InstallIdle

SpecPhrases == InitPhrases /\ [][Next]_vars

\* ------------------------------------------------------- loading at startup
\* config before the module body "export const config = loadConfig()" has run
Unloaded ==
  [apiKey |-> "",
   keywords |-> [enabled |-> FALSE, customPatterns |-> [kind |-> "unloaded", items |-> <<>>]]]

IsLoaded(cfg) == cfg.keywords.customPatterns.kind # "unloaded"

InitLoad ==
  /\ perplexityJson \in
       {AbsentSettings} \cup
       SettingsFiles({"", "pplx-file"}, {"true", "false", Unset},
                     {NoPatterns} \cup {PatternList(ps) : ps \in Seqs(CustomSources, MaxCustom)})
  /\ envApiKey \in {"", "pplx-env"}
  /\ config = Unloaded
  /\ DetectIdle
  /\ HookIdle
  /\ InstallIdle

\* export const config = loadConfig()
LoadConfig ==
  /\ ~IsLoaded(config)
  /\ config' = loadConfig(perplexityJson, envApiKey)
  /\ UNCHANGED <<perplexityJson, envApiKey, detectVars, hookVars, installVars>>

NextLoad == LoadConfig

SpecLoad == InitLoad /\ [][NextLoad]_vars

\* ------------------------------------------------------------ the installer
\* the host config files install may find
HostConfigs ==
  {AbsentHostConfig} \cup
  {[exists |-> TRUE, ext |-> e, comment |-> c[1], leading |-> c[2], schemaUrl |-> u,
    hasPlugin |-> p[1], plugin |-> p[2], mcp |-> m] :
     e \in {"json", "jsonc"},
     c \in {<<"none", FALSE>>, <<"plain", TRUE>>, <<"plain", FALSE>>, <<"mention", FALSE>>,
            <<"pluginList", FALSE>>},
     u \in BOOLEAN,
     p \in {<<FALSE, <<>>>>, <<TRUE, <<>>>>, <<TRUE, <<"other-plugin">>>>,
            <<TRUE, <<PLUGIN_NAME>>>>},
     m \in {<<>>, <<PerplexityServer("pplx-old")>>}}

OldSettings ==
  [exists |-> TRUE, apiKey |-> "pplx-old", enabled |-> "false",
   customPatterns |-> PatternList(<< <<"foo">> >>)]

AgentsFiles ==
  {AbsentAgentsMd, [exists |-> TRUE, other |-> TRUE, copies |-> 0],
   [exists |-> TRUE, other |-> TRUE, copies |-> 1]}

InitInstall ==
  /\ perplexityJson \in {AbsentSettings, OldSettings}
  /\ envApiKey \in {"", "pplx-env"}
  /\ Loaded
  /\ DetectIdle
  /\ HookIdle
  /\ hostConfig \in HostConfigs
  /\ agentsMd \in AgentsFiles
  /\ pc = "idle"
  /\ tui = FALSE
  /\ apiKey = ""
  /\ runs = 0
  /\ failed = {}
  /\ reported = {}

notInstall == <<envApiKey, config, detectVars, hookVars>>
consoleVars == <<failed, reported>>

\* install, Step 1: the options and the API key
Step1 ==
  /\ pc \in {"idle", "done", "rejected"}
  /\ runs < MaxRuns
  /\ \E t \in BOOLEAN, optionKey \in {"", "pplx-new"}, answer \in {"", "pplx-typed"} :
       /\ tui' = t
       /\ apiKey' = IF optionKey # "" THEN optionKey
                    ELSE IF envApiKey # "" THEN envApiKey
                    ELSE IF t THEN answer
                    ELSE ""
  /\ pc' = "step2"
  /\ failed' = {}
  /\ reported' = {}
  /\ UNCHANGED <<perplexityJson, hostConfig, agentsMd, runs, notInstall>>

\* install, Step 2: the settings file
Step2 ==
  /\ pc = "step2"
  /\ perplexityJson' = IF apiKey # "" THEN createPerplexityConfig(apiKey) ELSE perplexityJson
  /\ pc' = "step3"
  /\ UNCHANGED <<hostConfig, agentsMd, tui, apiKey, runs, notInstall, consoleVars>>

\* addPluginToConfig(configPath); if (apiKey) addMcpServerToConfig(configPath, apiKey)
Register(h, key) ==
  LET withPlugin == addPluginToConfig(h).file
  IN IF key # "" THEN addMcpServerToConfig(withPlugin, key).file ELSE withPlugin

\* install, Step 3: the host config
Step3 ==
  /\ pc = "step3"
  /\ \E confirmed \in BOOLEAN :
       hostConfig' =
         IF findOpencodeConfig(hostConfig)
         THEN IF tui /\ ~confirmed THEN hostConfig ELSE Register(hostConfig, apiKey)
         ELSE IF tui
              THEN IF confirmed /\ apiKey # "" THEN createNewConfig(apiKey) ELSE hostConfig
              ELSE IF apiKey # "" THEN createNewConfig(apiKey) ELSE hostConfig
  /\ pc' = "step4"
  /\ UNCHANGED <<perplexityJson, agentsMd, tui, apiKey, runs, notInstall, consoleVars>>

\* install, Step 4 to the end: AGENTS.md, the printed notes, return 0
Step4 ==
  /\ pc = "step4"
  /\ \E confirmed \in BOOLEAN :
       agentsMd' = IF tui /\ ~confirmed THEN agentsMd ELSE updateAgentsMd(agentsMd)
  /\ pc' = "done"
  /\ runs' = runs + 1
  /\ UNCHANGED <<perplexityJson, hostConfig, tui, apiKey, notInstall, consoleVars>>

NextInstall == Step1 \/ Step2 \/ Step3 \/ Step4

SpecInstall == InitInstall /\ [][NextInstall]_vars

\* ------------------------------------------- the installer on a failing disk
\* A file system call of a step either succeeds or throws (EACCES, EROFS,
\* ENOSPC ...): fs names the call that throws, "none" when all succeed.
PluginWrites(h) == ~IncludesPluginName(h) /\ StripParses(h)

McpWrites(h) == StripParses(h) /\ ~HasPerplexityServer(h)

\* createPerplexityConfig: mkdirSync and writeFileSync stand outside any try
createPerplexityConfigFs(old, key, fs) ==
  IF fs \in {"mkdir", "write"}
  THEN [threw |-> TRUE, file |-> old]
  ELSE [threw |-> FALSE, file |-> createPerplexityConfig(key)]

\* createNewConfig: mkdirSync and writeFileSync stand outside any try
createNewConfigFs(old, key, fs) ==
  IF fs \in {"mkdir", "write"}
  THEN [threw |-> TRUE, file |-> old]
  ELSE [threw |-> FALSE, file |-> createNewConfig(key)]

\* addPluginToConfig: the read and the write are inside try ... catch
addPluginToConfigFs(h, fs) ==
  IF fs = "read" \/ (fs = "write" /\ PluginWrites(h))
  THEN [ok |-> FALSE, file |-> h]
  ELSE addPluginToConfig(h)

\* addMcpServerToConfig: the read and the write are inside try ... catch
addMcpServerToConfigFs(h, key, fs) ==
  IF fs = "read" \/ (fs = "write" /\ McpWrites(h))
  THEN [ok |-> FALSE, file |-> h]
  ELSE addMcpServerToConfig(h, key)

\* updateAgentsMd: mkdirSync before the try, the rest inside it
updateAgentsMdFs(a, fs) ==
  IF fs = "mkdir" THEN [threw |-> TRUE, ok |-> FALSE, file |-> a]
  ELSE IF (fs = "read" /\ a.exists) \/ (fs = "write" /\ updateAgentsMd(a) # a)
       THEN [threw |-> FALSE, ok |-> FALSE, file |-> a]
       ELSE [threw |-> FALSE, ok |-> TRUE, file |-> updateAgentsMd(a)]

FsOutcomes == {"none", "mkdir", "read", "write"}

\* install, Step 2 on a disk that may fail
Step2Fs ==
  /\ pc = "step2"
  /\ \E fs \in FsOutcomes :
       IF apiKey = ""
       THEN /\ pc' = "step3"
            /\ UNCHANGED <<perplexityJson, failed>>
       ELSE \E r \in {createPerplexityConfigFs(perplexityJson, apiKey, fs)} :
              /\ perplexityJson' = r.file
              /\ failed' = IF r.threw THEN failed \cup {"settings"} ELSE failed
              /\ pc' = IF r.threw THEN "rejected" ELSE "step3"
  /\ runs' = IF pc' = "rejected" THEN runs + 1 ELSE runs
  /\ UNCHANGED <<hostConfig, agentsMd, tui, apiKey, reported, notInstall>>

\* install, Step 3 on a disk that may fail
Step3Fs ==
  /\ pc = "step3"
  /\ \E confirmed \in BOOLEAN, fs1 \in FsOutcomes, fs2 \in FsOutcomes :
       IF findOpencodeConfig(hostConfig)
       THEN IF tui /\ ~confirmed
            THEN /\ pc' = "step4"
                 /\ UNCHANGED <<hostConfig, failed, reported>>
            ELSE \E p \in {addPluginToConfigFs(hostConfig, fs1)} :
                 \E m \in {IF apiKey # "" THEN addMcpServerToConfigFs(p.file, apiKey, fs2)
                           ELSE [ok |-> TRUE, file |-> p.file]} :
                   \E bad \in {(IF p.ok THEN {} ELSE {"plugin"}) \cup
                               (IF m.ok THEN {} ELSE {"server"})} :
                     /\ hostConfig' = m.file
                     /\ failed' = failed \cup bad
                     /\ reported' = reported \cup bad
                     /\ pc' = "step4"
       ELSE IF apiKey # "" /\ (~tui \/ confirmed)
            THEN \E r \in {createNewConfigFs(hostConfig, apiKey, fs1)} :
                   /\ hostConfig' = r.file
                   /\ failed' = IF r.threw THEN failed \cup {"newConfig"} ELSE failed
                   /\ pc' = IF r.threw THEN "rejected" ELSE "step4"
                   /\ UNCHANGED reported
            ELSE /\ pc' = "step4"
                 /\ UNCHANGED <<hostConfig, failed, reported>>
  /\ runs' = IF pc' = "rejected" THEN runs + 1 ELSE runs
  /\ UNCHANGED <<perplexityJson, agentsMd, tui, apiKey, notInstall>>

\* install, Step 4 to the end on a disk that may fail
Step4Fs ==
  /\ pc = "step4"
  /\ \E confirmed \in BOOLEAN, fs \in FsOutcomes :
       IF tui /\ ~confirmed
       THEN /\ pc' = "done"
            /\ UNCHANGED <<agentsMd, failed, reported>>
       ELSE \E r \in {updateAgentsMdFs(agentsMd, fs)} :
              /\ agentsMd' = r.file
              /\ failed' = IF r.ok THEN failed ELSE failed \cup {"agents"}
              /\ reported' = IF r.ok \/ r.threw THEN reported ELSE reported \cup {"agents"}
              /\ pc' = IF r.threw THEN "rejected" ELSE "done"
  /\ runs' = runs + 1
  /\ UNCHANGED <<perplexityJson, hostConfig, tui, apiKey, notInstall>>

NextFs == Step1 \/ Step2Fs \/ Step3Fs \/ Step4Fs

SpecFs == InitInstall /\ [][NextFs]_vars

\* ================================================================ claims
Min(xs) == CHOOSE x \in xs : \A y \in xs : x <= y

ValidSources(cfg) == SelectSeq(cfg.keywords.customPatterns.items, Compiles)

\* the scan order of the claim: research, valid custom, built-in search
ScanOrder(cfg) ==
  RESEARCH_PATTERNS
    \o [i \in 1..Len(ValidSources(cfg)) |-> NewRegExp(ValidSources(cfg)[i])]
    \o SEARCH_PATTERNS

Hits(text, patterns) == {k \in 1..Len(patterns) : Match(text, patterns[k]).found}

FirstInOrder(text, cfg) ==
  LET all == ScanOrder(cfg)
      hits == Hits(text, all)
  IN IF hits = {} THEN Null
     ELSE KeywordMatch(IF Min(hits) <= Len(RESEARCH_PATTERNS) THEN "research" ELSE "search",
                       Match(text, all[Min(hits)]).text)

\* C1: with detection enabled, detectKeywords returns the first pattern that
\* matches the cleaned message in the order research patterns, valid custom
\* patterns in configured order, built-in search patterns; the type is
\* "research" for a research pattern and "search" otherwise, and the matched
\* text is that pattern's match.
C1_FirstMatchInFixedOrder ==
  (result # Pending /\ config.keywords.enabled)
    => result = FirstInOrder(removeCodeBlocks(message), config)

\* a message that a research, a custom and a built-in search pattern all
\* match is reported as research
C1_Witness ==
  /\ result.kind = "match" /\ result.type = "research"
  /\ Hits(message, [i \in 1..Len(ValidSources(config)) |-> NewRegExp(ValidSources(config)[i])]) # {}
  /\ Hits(message, SEARCH_PATTERNS) # {}

RECURSIVE Outside(_, _, _)
\* the pieces of text outside code spans: a span opens at three backticks and
\* runs to the next three, or opens at one backtick and runs to the next one;
\* a span that is never closed runs to the end of the message
Outside(s, i, cur) ==
  IF i > Len(s) THEN <<cur>>
  ELSE IF IsFenceAt(s, i)
       THEN IF NextFence(s, i + 3) = 0 THEN <<cur>>
            ELSE <<cur>> \o Outside(s, NextFence(s, i + 3) + 3, <<>>)
  ELSE IF s[i] = BT
       THEN IF NextTick(s, i + 1) = 0 THEN <<cur>>
            ELSE <<cur>> \o Outside(s, NextTick(s, i + 1) + 1, <<>>)
  ELSE Outside(s, i + 1, cur \o <<s[i]>>)

OutsideSegments(text) == Outside(Expand(text), 1, <<>>)

TypeOf(k) == IF k <= Len(RESEARCH_PATTERNS) THEN "research" ELSE "search"

\* the reported match is a match of some pattern on the piece on its own
MatchesOnItsOwn(piece, cfg, r) ==
  \E k \in Hits(piece, ScanOrder(cfg)) :
    TypeOf(k) = r.type /\ Match(piece, ScanOrder(cfg)[k]).text = r.matchedText

\* C2: text inside a fenced or inline code span never triggers a match, closed
\* or not, and removing the spans never creates a match: whatever
\* detectKeywords reports is a match of a piece of text outside the spans on
\* its own.
C2_CodeNeverTriggers ==
  result.kind = "match" =>
    \E n \in 1..Len(OutsideSegments(message)) :
      MatchesOnItsOwn(OutsideSegments(message)[n], config, result)

\* C3: when keywords.enabled is false in the settings file, detectKeywords
\* returns no match whatever the message contains.
C3_DisabledNeverMatches ==
  (result # Pending /\ perplexityJson.enabled = "false") => result = Null

\* detection is disabled and the message holds a research phrase
C3_Witness ==
  /\ result = Null /\ perplexityJson.enabled = "false"
  /\ Hits(message, RESEARCH_PATTERNS) # {}
  /\ Hits(message, SEARCH_PATTERNS) # {}

WithoutInvalid(cfg) ==
  [cfg EXCEPT !.keywords.customPatterns = PatternList(ValidSources(cfg))]

\* C4: a custom pattern that does not compile is skipped and detectKeywords
\* does not raise: the result equals the result for the same list with the
\* invalid entries removed.
C4_InvalidPatternsSkipped ==
  result # Pending =>
    /\ result.kind # "throw"
    /\ result = detectKeywords(message, WithoutInvalid(config))

\* an invalid entry is listed before a valid one, and the valid one matches
C4_Witness ==
  /\ result.kind = "match" /\ result.matchedText = <<"foo">>
  /\ Len(config.keywords.customPatterns.items) = 2
  /\ ~Compiles(config.keywords.customPatterns.items[1])
  /\ Compiles(config.keywords.customPatterns.items[2])

\* ------------------------------------------------------------ hook claims
HostGiven == SelectSeq(output.parts, LAMBDA p : ~p.synthetic)
Added == SelectSeq(output.parts, LAMBDA p : p.synthetic)
JoinedText == Join(SelectSeq(HostGiven, LAMBDA p : p.type = "text"))
Detected == detectKeywords(JoinedText, config)

\* the host handed over what its interface promises, and the settings file
\* lists its custom patterns in an array
WellFormed ==
  /\ \A i \in 1..Len(output.parts) : output.parts[i].type # "null"
  /\ output.message # None
  /\ config.keywords.customPatterns.kind = "list"

HookDone == hookStatus \in {"returned", "caught", "raised"}

OneNudgeAppended ==
  /\ Len(Added) = 1
  /\ output.parts = HostGiven \o Added
  /\ Added[1].type = "text"
  /\ Added[1].text = (IF Detected.type = "research" THEN getResearchNudge ELSE getSearchNudge)

\* C5 as stated: one invocation appends exactly one synthetic text segment
\* if and only if the plugin is configured and the detector returns a match
\* on the newline-joined text of the text segments; otherwise nothing is
\* appended.
C5_NudgeIffMatch ==
  (HookDone /\ WellFormed) =>
    IF config.apiKey # "" /\ Detected.kind = "match"
    THEN OneNudgeAppended
    ELSE Added = <<>>

\* C5 amended: one invocation appends exactly one synthetic text segment,
\* holding the research template for a research match and the search template
\* for a search match, if and only if the plugin is configured, the joined
\* text is not blank and the detector returns a match on it; otherwise
\* nothing is appended.
C5_NudgeIffMatchOnNonBlank ==
  (HookDone /\ WellFormed) =>
    IF config.apiKey # "" /\ Trim(JoinedText) # <<>> /\ Detected.kind = "match"
    THEN OneNudgeAppended
    ELSE Added = <<>>

\* a research nudge was appended after two text segments joined by a newline
C5_Witness ==
  /\ hookStatus = "returned" /\ WellFormed
  /\ Len(HostGiven) = 2 /\ Len(Added) = 1
  /\ Added[1].text = getResearchNudge

IsPrefix(a, b) == Len(a) <= Len(b) /\ SubSeq(b, 1, Len(a)) = a

\* C6: an invocation of the hook leaves the segments that were in
\* output.parts in place, unchanged and in order, as a prefix of the list
\* after the call.
C6_ExistingPartsKept ==
  [][hookStatus = "pending" => IsPrefix(output.parts, output'.parts)]_vars

\* the hook has pushed a nudge behind a file segment and a text segment
C6_Witness ==
  /\ hookStatus = "returned"
  /\ Len(output.parts) = 3
  /\ output.parts[1] = FilePart
  /\ output.parts[3].synthetic

\* C7: the hook never raises to the host; when something throws inside it,
\* the hook returns and no nudge segment is emitted.
C7_NeverRaises ==
  /\ hookStatus # "raised"
  /\ hookStatus = "caught" => (Added = <<>> /\ emitted = <<>>)

\* the detector threw on a custom pattern list that is not an array, and the
\* hook caught it
C7_Witness ==
  /\ hookStatus = "caught"
  /\ config.keywords.customPatterns = NotArray
  /\ \A i \in 1..Len(output.parts) : output.parts[i].type # "null"

\* --------------------------------------------------------- installer claims
PluginEntries(h) == Len(SelectSeq(h.plugin, LAMBDA n : n = PLUGIN_NAME))
ServerEntries(h) == Len(SelectSeq(h.mcp, LAMBDA e : e.name = "perplexity"))

\* C9: in a run of install after a first run, a plugin list that holds the
\* plugin identifier, a tool-server table that holds 'perplexity' and an
\* AGENTS.md that holds the instructions are left as they are, a host config
\* that holds both entries is left unchanged as a whole, and none of them
\* ever holds a second occurrence.
C9_RerunAddsNoDuplicates ==
  [][runs >= 1 =>
       /\ PluginEntries(hostConfig) >= 1 => hostConfig'.plugin = hostConfig.plugin
       /\ ServerEntries(hostConfig) >= 1 => hostConfig'.mcp = hostConfig.mcp
       /\ agentsMd.copies >= 1 => agentsMd' = agentsMd
       /\ (PluginEntries(hostConfig) >= 1 /\ ServerEntries(hostConfig) >= 1)
            => hostConfig' = hostConfig
       /\ PluginEntries(hostConfig') <= 1
       /\ ServerEntries(hostConfig') <= 1
       /\ agentsMd'.copies <= 1]_vars

\* a second run with another API key has ended on a host config, created by
\* the first run or found by it, that holds each entry once
C9_Witness ==
  /\ runs = 2 /\ pc = "done" /\ apiKey = "pplx-new"
  /\ PluginEntries(hostConfig) = 1
  /\ ServerEntries(hostConfig) = 1
  /\ hostConfig.mcp[1].key # "pplx-new"
  /\ agentsMd.copies = 1

\* C10: install writes the settings file only if it is absent: a settings
\* file that exists is left unchanged, also when install is given another
\* API key than the one stored in it.
C10_ExistingSettingsKept ==
  [][perplexityJson.exists => perplexityJson' = perplexityJson]_vars

\* C8: any two nudge segments the hook appended have different ids.
C8_NudgeIdsUnique ==
  \A i, j \in 1..Len(emitted) : i # j => emitted[i].id # emitted[j].id

\* C11: a failure in one installer step is reported to the console and does
\* not abort the run: no run ends in a rejected promise, and every failure of
\* a run is one the installer reported.
C11_FailureReportedAndRunContinues ==
  /\ pc # "rejected"
  /\ failed \subseteq reported

\* C12: the API-key environment variable overrides the configuration file:
\* with both set the loaded apiKey is the environment's, with one set it is
\* that one, with neither the plugin is unconfigured.
C12_EnvOverridesFile ==
  IsLoaded(config) =>
    LET fileKey == loadConfigFile(perplexityJson).apiKey IN
    /\ (fileKey # "" /\ envApiKey # "" => config.apiKey = envApiKey)
    /\ (fileKey # "" /\ envApiKey = "" => config.apiKey = fileKey)
    /\ (fileKey = "" /\ envApiKey # "" => config.apiKey = envApiKey)
    /\ (fileKey = "" /\ envApiKey = "" => ~isConfigured(config))

\* C12 as the code has it: the configuration file comes before the API-key
\* environment variable: with both set the loaded apiKey is the file's, with
\* one set it is that one, with neither the plugin is unconfigured.
C12_FileBeforeEnv ==
  IsLoaded(config) =>
    LET fileKey == loadConfigFile(perplexityJson).apiKey IN
    /\ (fileKey # "" => config.apiKey = fileKey)
    /\ (fileKey = "" /\ envApiKey # "" => config.apiKey = envApiKey)
    /\ (fileKey = "" /\ envApiKey = "" => ~isConfigured(config))

\* loaded with a key in the file and a different key in the environment
C12_Witness ==
  /\ IsLoaded(config)
  /\ perplexityJson.exists
  /\ perplexityJson.apiKey = "pplx-file"
  /\ envApiKey = "pplx-env"
  /\ config.apiKey = "pplx-file"

LowerSeq(s) == [i \in 1..Len(s) |-> Lower(s[i])]

Contains(s, p) ==
  \E i \in 0..(Len(s) - Len(p)) : SubSeq(s, i + 1, i + Len(p)) = p

\* a documented research trigger stands in the message outside code spans
HasResearchTrigger(text) ==
  \E n \in 1..Len(OutsideSegments(text)), p \in ResearchTriggers :
    Contains(LowerSeq(OutsideSegments(text)[n]), p)

\* C13: with detection enabled, for any message that contains one of the
\* documented research-trigger phrases outside code spans, in any letter
\* case, detectKeywords returns a match of type "research".
C13_DocumentedTriggerIsResearch ==
  (result # Pending /\ config.keywords.enabled /\ HasResearchTrigger(message)) =>
    (result.kind = "match" /\ result.type = "research")

\* the "plugin" list of the parsed file holds the plugin's identifier
InPluginList(h) ==
  h.hasPlugin /\ \E i \in 1..Len(h.plugin) : h.plugin[i] = PLUGIN_NAME

\* C14: whenever addPluginToConfig runs on an existing parseable host config
\* (.json or .jsonc, with or without a "plugin" key, comments or other
\* mentions of the plugin's name) and reports success, the plugin list stored
\* in the file afterwards contains "perplexity-opencode@latest".
C14_SuccessMeansRegistered ==
  [][(/\ pc = "step3" /\ pc' = "step4"
      /\ ~tui
      /\ findOpencodeConfig(hostConfig)
      /\ StripParses(hostConfig)
      /\ addPluginToConfig(hostConfig).ok)
     => InPluginList(hostConfig')]_vars

====
